---- MODULE Spec2Model ----
(***************************************************************************)
(* Model of amico/scheme.py: class Scheme (acquisition scheme of a         *)
(* diffusion-MRI protocol).                                                *)
(*                                                                         *)
(* Numbers.  The tables hold IEEE floats.  The model computes with exact   *)
(* values of the form  (n/d) * gamma^e[1] * gamma_wf^e[2]  (kind "q"),     *)
(* signed square roots of such values (kind "r", what np.sqrt returns when *)
(* the argument is no perfect square), and the three special floats NaN,   *)
(* +Inf and -Inf.  gamma = 267.513e6 and gamma_wf = 2.6751987E8 are kept   *)
(* symbolic (their squares do not fit the 32-bit integers of TLC); a sum   *)
(* or a comparison of two values with different symbolic parts has no case *)
(* below, so TLC stops with an error if a run ever needs one.  Gradient    *)
(* strengths of the input tables are multiples of 1/gamma and waveform     *)
(* samples multiples of 1/gamma_wf, so that b-values are plain fractions.  *)
(* Rounding and overflow of finite values are not modelled: an overflowed  *)
(* product is represented by an input that is Inf already.                 *)
(*                                                                         *)
(* Runs.  A run builds one scheme from the caller's array (a file name is  *)
(* read into such an array first; the reading is not modelled), converts   *)
(* it with to_version_1 any number of times, and may end by writing a      *)
(* scheme file.                                                            *)
(*                                                                         *)
(* Indices.  Rows and columns are numbered from 1 here, from 0 in Python:  *)
(* model row i is Python row i-1, model column c is Python column c-1.     *)
(***************************************************************************)
EXTENDS Integers, Sequences, FiniteSets, TLC

(***************************************************************************)
(* Exact arithmetic on the float values                                    *)
(***************************************************************************)
Abs(n) == IF n < 0 THEN -n ELSE n

Sgn(n) == IF n < 0 THEN -1 ELSE IF n = 0 THEN 0 ELSE 1

RECURSIVE Gcd(_, _)
Gcd(a, b) == IF b = 0 THEN a ELSE Gcd(b, a % b)

NoExp == <<0, 0>>

NaN == [k |-> "nan", n |-> 0, d |-> 1, e |-> NoExp]

Inf(s) == [k |-> "inf", n |-> s, d |-> 1, e |-> NoExp]

\* the reduced fraction n/d times gamma^e[1] * gamma_wf^e[2]; d # 0
QE(n, d, e) ==
    LET g == Gcd(Abs(n), Abs(d))
        s == IF d < 0 THEN -1 ELSE 1
    IN  [k |-> "q", n |-> s * (n \div g), d |-> Abs(d) \div g,
         e |-> IF n = 0 THEN NoExp ELSE e]

Q(n, d) == QE(n, d, NoExp)

Z(n) == QE(n, 1, NoExp)

\* sign(n) * sqrt(|n|/d) times gamma^e[1] * gamma_wf^e[2], n/d reduced
RE(n, d, e) ==
    LET g == Gcd(Abs(n), d)
    IN  [k |-> "r", n |-> n \div g, d |-> d \div g, e |-> e]

IsNaN(x) == x.k = "nan"

ExpAdd(e, f) == <<e[1] + f[1], e[2] + f[2]>>

ExpNeg(e) == <<-e[1], -e[2]>>

\* -x
Neg(x) ==
    CASE x.k = "nan" -> NaN
      [] x.k = "inf" -> Inf(-x.n)
      [] x.k = "q"   -> [x EXCEPT !.n = -x.n]
      [] x.k = "r"   -> [x EXCEPT !.n = -x.n]

\* x + y
Add(x, y) ==
    CASE x.k = "nan" \/ y.k = "nan" -> NaN
      [] x.k = "inf" /\ y.k = "inf" -> IF x.n = y.n THEN x ELSE NaN
      [] x.k = "inf" /\ y.k = "q"   -> x
      [] x.k = "q" /\ y.k = "inf"   -> y
      [] x.k = "q" /\ y.k = "q" /\ x.n = 0 -> y
      [] x.k = "q" /\ y.k = "q" /\ x.n # 0 /\ y.n = 0 -> x
      [] x.k = "q" /\ y.k = "q" /\ x.n # 0 /\ y.n # 0 /\ x.e = y.e ->
            LET g == Gcd(x.d, y.d)
            IN  QE(x.n * (y.d \div g) + y.n * (x.d \div g), (x.d \div g) * y.d, x.e)

\* x - y
Sub(x, y) == Add(x, Neg(y))

\* the product of two fractions, cancelling before multiplying
MulQ(x, y) ==
    LET g1 == Gcd(Abs(x.n), y.d)
        g2 == Gcd(Abs(y.n), x.d)
    IN  QE((x.n \div g1) * (y.n \div g2), (x.d \div g2) * (y.d \div g1),
           ExpAdd(x.e, y.e))

\* sqrt(|r.n|/r.d) * |q|, signed: the product of a root and a fraction
MulR(r, q) ==
    LET g1 == Gcd(Abs(r.n), q.d * q.d)
        g2 == Gcd(q.n * q.n, r.d)
    IN  IF q.n = 0 THEN Z(0)
        ELSE RE(Sgn(q.n) * (r.n \div g1) * ((q.n * q.n) \div g2),
                (r.d \div g2) * ((q.d * q.d) \div g1), ExpAdd(r.e, q.e))

\* x * y
Mul(x, y) ==
    CASE x.k = "nan" \/ y.k = "nan" -> NaN
      [] x.k = "inf" /\ y.k = "inf" -> Inf(x.n * y.n)
      [] x.k = "inf" /\ y.k # "inf" -> IF y.n = 0 THEN NaN ELSE Inf(x.n * Sgn(y.n))
      [] x.k # "inf" /\ y.k = "inf" -> IF x.n = 0 THEN NaN ELSE Inf(y.n * Sgn(x.n))
      [] x.k = "q" /\ y.k = "q" -> MulQ(x, y)
      [] x.k = "r" /\ y.k = "q" -> MulR(x, y)
      [] x.k = "q" /\ y.k = "r" -> MulR(y, x)

\* x / y for a finite non-zero fraction y
Div(x, y) ==
    CASE x.k = "nan" -> NaN
      [] x.k = "inf" /\ y.k = "q" /\ y.n # 0 -> Inf(x.n * Sgn(y.n))
      [] x.k = "q" /\ y.k = "q" /\ y.n # 0 ->
            MulQ(x, QE(y.d, y.n, ExpNeg(y.e)))

\* x ** 2
Sq(x) ==
    CASE x.k = "nan" -> NaN
      [] x.k = "inf" -> Inf(1)
      [] x.k = "q"   -> MulQ(x, x)
      [] x.k = "r"   -> QE(Abs(x.n), x.d, ExpAdd(x.e, x.e))

\* the integer square root of n >= 0, by bisection on lo..hi
RECURSIVE ISqrtIn(_, _, _)
ISqrtIn(n, lo, hi) ==
    IF lo >= hi THEN lo
    ELSE LET mid == (lo + hi + 1) \div 2
         IN  IF mid * mid <= n THEN ISqrtIn(n, mid, hi) ELSE ISqrtIn(n, lo, mid - 1)

ISqrt(n) == ISqrtIn(n, 0, 46340)

IsSquare(n) == ISqrt(n) * ISqrt(n) = n

\* np.sqrt(x): NaN for a negative argument
Sqrt(x) ==
    CASE x.k = "nan" -> NaN
      [] x.k = "inf" -> IF x.n > 0 THEN x ELSE NaN
      [] x.k = "q" /\ x.n < 0 -> NaN
      [] x.k = "q" /\ x.n >= 0 /\ x.e[1] % 2 = 0 /\ x.e[2] % 2 = 0 ->
            LET h == <<x.e[1] \div 2, x.e[2] \div 2>>
            IN  IF IsSquare(x.n) /\ IsSquare(x.d)
                THEN QE(ISqrt(x.n), ISqrt(x.d), h)
                ELSE RE(x.n, x.d, h)

\* x < y (False when either is NaN)
Lt(x, y) ==
    CASE x.k = "nan" \/ y.k = "nan" -> FALSE
      [] x.k = "inf" /\ y.k = "inf" -> x.n < y.n
      [] x.k = "inf" /\ y.k = "q"   -> x.n < 0
      [] x.k = "q" /\ y.k = "inf"   -> y.n > 0
      [] x.k = "q" /\ y.k = "q" /\ (x.n = 0 \/ y.n = 0 \/ x.e = y.e) ->
            x.n * y.d < y.n * x.d

\* x == y as floats (False when either is NaN); values are kept in normal form
Eq(x, y) == ~IsNaN(x) /\ ~IsNaN(y) /\ x = y

\* x <= y
Le(x, y) == Lt(x, y) \/ Eq(x, y)

\* x > y
Gt(x, y) == Lt(y, x)

(***************************************************************************)
(* Constants of the program                                                *)
(***************************************************************************)
\* 267.513e6, the gyromagnetic ratio of the Stejskal-Tanner formulas (symbolic)
gamma == QE(1, 1, <<1, 0>>)

\* 2.6751987E8, the gyromagnetic ratio of compute1D_b (symbolic)
gamma_wf == QE(1, 1, <<0, 1>>)

\* delta = 0.010 of to_version_1
delta == Q(1, 100)

\* Delta = 0.025 of to_version_1
Delta == Q(1, 40)

\* the 1e-6 of the Stejskal-Tanner b-value (to mm^2/s)
Micro == Q(1, 1000000)

\* Python's None, where a number may stand
None == [k |-> "none", n |-> 0, d |-> 1, e |-> NoExp]

\* the default of the parameter b0_thr
DefaultB0Thr == Z(0)

(***************************************************************************)
(* Helpers on sequences                                                    *)
(***************************************************************************)
\* np.where(mask)[0] over rows 1..n: the indices of the set S, ascending
Where(n, S) ==
    LET upto[k \in 0..n] ==
            IF k = 0 THEN <<>>
            ELSE IF k \in S THEN Append(upto[k - 1], k) ELSE upto[k - 1]
    IN  upto[n]

\* the elements of a sequence, as a set
Range(s) == {s[i] : i \in DOMAIN s}

\* columns lo..hi of a row
Cols(row, lo, hi) == SubSeq(row, lo, hi)

\* (u == v).all() for two rows of the same length
RowEq(u, v) == \A c \in DOMAIN u : Eq(u[c], v[c])

(***************************************************************************)
(* compute1D_b                                                             *)
(***************************************************************************)
\* g.cumsum()
RECURSIVE CumSum(_)
CumSum(g) ==
    IF Len(g) = 0 THEN <<>>
    ELSE LET head == CumSum(SubSeq(g, 1, Len(g) - 1))
         IN  Append(head, IF Len(head) = 0 THEN g[1] ELSE Add(head[Len(head)], g[Len(g)]))

\* np.dot(q, q.T)
RECURSIVE Dot(_, _)
Dot(p, q) ==
    IF Len(p) = 0 THEN Z(0)
    ELSE Add(Dot(SubSeq(p, 1, Len(p) - 1), SubSeq(q, 1, Len(q) - 1)),
             Mul(p[Len(p)], q[Len(q)]))

\* the b-value of the waveform g with echo time TE
compute1D_b(g, TE, unit) ==
    LET dt == Div(TE, Z(Len(g)))
        cs == CumSum(g)
        q  == [i \in DOMAIN g |-> Mul(Mul(cs[i], dt), gamma_wf)]
        b  == Mul(Dot(q, q), dt)
    IN  IF unit = "usual" THEN Div(b, Z(1000000)) ELSE b

(***************************************************************************)
(* load_from_table                                                         *)
(***************************************************************************)
\* a choice of format that takes every table wider than 4 columns for a waveform
versionMutant(ncols) ==
    IF ncols = 4 THEN 0 ELSE IF ncols = 7 THEN 1 ELSE IF ncols > 4 THEN 2 ELSE -1

\* self.version, the format chosen from the column count;
\* -1: the else branch, 'Unrecognized scheme format'
version(ncols) ==
    IF ncols = 4 THEN 0 ELSE IF ncols = 7 THEN 1 ELSE IF ncols > 7 THEN 2 ELSE -1

\* the Stejskal-Tanner b-value of one row of a 7-column table
StejskalTannerB(row) ==
    Mul(Mul(Sq(Mul(Mul(gamma, row[4]), row[6])),
            Sub(row[5], Div(row[6], Z(3)))),
        Micro)

\* self.b
bValues(rows, ver) ==
    [i \in DOMAIN rows |->
        CASE ver = 0 -> rows[i][4]
          [] ver = 1 -> StejskalTannerB(rows[i])
          [] ver = 2 -> compute1D_b(Cols(rows[i], 5, Len(rows[i])), rows[i][4], "usual")]

\* np.where( self.b <= b0_thr )[0]
b0Idx(b, b0_thr) == Where(Len(b), {i \in DOMAIN b : Le(b[i], b0_thr)})

\* np.where( self.b > b0_thr )[0]
dwiIdx(b, b0_thr) == Where(Len(b), {i \in DOMAIN b : Gt(b[i], b0_thr)})

\* a normalization that negates the Y column alone
normalizeRowMutant(row) ==
    IF Lt(row[2], Z(0))
    THEN [c \in DOMAIN row |-> IF c = 2 THEN Neg(row[c]) ELSE row[c]]
    ELSE row

\* one row after  self.raw[idx,0:3] = -self.raw[idx,0:3], idx = where(raw[:,1] < 0)
normalizeRow(row) ==
    IF Lt(row[2], Z(0))
    THEN [c \in DOMAIN row |-> IF c <= 3 THEN Neg(row[c]) ELSE row[c]]
    ELSE row

normalize(rows) == [i \in DOMAIN rows |-> normalizeRow(rows[i])]

\* tmp = self.raw[:,3:], the descriptor columns
descriptors(rows) == [i \in DOMAIN rows |-> Cols(rows[i], 4, Len(rows[i]))]

\* np.unique(..., return_index=True)[1], as a set: the index of the first
\* occurrence of every distinct descriptor row (a row holding a NaN equals
\* no row, itself included, so each one is distinct)
schemeUniqueInd(tmp) ==
    {i \in DOMAIN tmp : \A j \in 1..(i - 1) : ~RowEq(tmp[j], tmp[i])}

\* the order np.unique itself returns: ascending by value (here: by the first
\* descriptor column, ties and special values by index)
ValueBefore(tmp, i, j) ==
    LET x == tmp[i][1]
        y == tmp[j][1]
    IN  IF x.k = "q" /\ y.k = "q" /\ (x.n = 0 \/ y.n = 0 \/ x.e = y.e) /\ ~Eq(x, y)
        THEN Lt(x, y)
        ELSE i < j

\* the indices left in the order of np.unique, without sorted()
sortedMutant(tmp, S) ==
    SortSeq(Where(Len(tmp), S), LAMBDA i, j : ValueBefore(tmp, i, j))

\* sorted(schemeUniqueInd): ascending by index
sorted(tmp, S) == Where(Len(tmp), S)

\* one entry of self.shells
shell(rows, tmp, b, ver, index) ==
    LET u == tmp[index]
        idx == Where(Len(tmp), {r \in DOMAIN tmp : RowEq(tmp[r], u)})
    IN  [b     |-> b[index],
         G     |-> IF ver = 1 THEN u[1] ELSE None,
         Delta |-> IF ver = 1 THEN u[2] ELSE None,
         delta |-> IF ver = 1 THEN u[3] ELSE None,
         TE    |-> IF ver = 1 THEN u[4] ELSE IF ver = 2 THEN u[1] ELSE None,
         wf    |-> IF ver = 2 THEN Cols(u, 2, Len(u)) ELSE None,
         idx   |-> idx,
         grad  |-> [k \in DOMAIN idx |-> Cols(rows[idx[k]], 1, 3)]]

\* self.shells: one shell per distinct descriptor, in the given order, unless
\* bUnique[i] <= b0_thr skips it
RECURSIVE shellsFrom(_, _, _, _, _, _)
shellsFrom(rows, tmp, b, ver, b0_thr, order) ==
    IF Len(order) = 0 THEN <<>>
    ELSE LET rest == shellsFrom(rows, tmp, b, ver, b0_thr, Tail(order))
         IN  IF Le(b[Head(order)], b0_thr) THEN rest
             ELSE <<shell(rows, tmp, b, ver, Head(order))>> \o rest

\* np.expand_dims( data, axis=0 ) for a 1-D array: one row, on the same memory
expand_dims(data) == <<data.cells>>

\* ERROR of amico.util: reports the message and ends the call; nothing is returned
ERROR(message) == [aborts |-> TRUE, message |-> message]

\* load_from_table on the rows of array `arr`: the fields it sets on self,
\* and the rows it leaves in the array (self.raw is the caller's array)
load_from_table(arr, rows, b0_thr) ==
    LET ver  == version(Len(rows[1]))
        b    == bValues(rows, ver)
        b0   == b0Idx(b, b0_thr)
        dwi  == dwiIdx(b, b0_thr)
        norm == normalize(rows)
        tmp  == descriptors(norm)
    IN  [self |-> [raw |-> arr, version |-> ver, b |-> b, b0_thr |-> b0_thr,
                   b0_idx |-> b0, b0_count |-> Len(b0),
                   dwi_idx |-> dwi, dwi_count |-> Len(dwi),
                   shells |-> shellsFrom(norm, tmp, b, ver, b0_thr,
                                         sorted(tmp, schemeUniqueInd(tmp)))],
         rows |-> norm]

\* Scheme(data, b0_thr) for a matrix: __init__ hands it to load_from_table
Scheme(arr, rows, b0_thr) == load_from_table(arr, rows, b0_thr)

\* the property nS
nS(self) == self.b0_count + self.dwi_count

(***************************************************************************)
(* Bounds                                                                  *)
(***************************************************************************)
\* the largest number of rows of an input table
MaxRows == 2

\* the largest number of Scheme objects of one run
MaxObjs == 2

(***************************************************************************)
(* State                                                                   *)
(***************************************************************************)
VARIABLES
    arrays,   \* the numpy arrays allocated so far: arrays[a] = [ndim, rows], the
              \* dimension the array was made with and its rows in 2-D view
    objs,     \* the Scheme objects built so far; objs[o].raw is an array id
    given,    \* given[o]: the rows of the table as they were handed to Scheme o
    file,     \* the scheme file of the last write: [handle, lines]
    ret       \* the last call: [op, self, result, raised]

vars == <<arrays, objs, given, file, ret>>

\* the rows of self.raw
rawRows(self) == arrays[self.raw].rows

\* result of a call that returns None, or that raises
NoObject == 0

(***************************************************************************)
(* to_version_1                                                            *)
(***************************************************************************)
\* gMax: the gradient strength solved from one b-value
gMax(value) ==
    Sqrt(Div(value,
             Mul(Mul(Mul(Mul(gamma, gamma), delta), delta),
                 Sub(Delta, Div(delta, Z(3))))))

\* dataBis: the Nx7 table built from a waveform scheme
dataBis(rows, b) ==
    [i \in DOMAIN rows |->
        <<rows[i][1], rows[i][2], rows[i][3], gMax(b[i]), Delta, delta, rows[i][4]>>]

\* a return statement that hands the threshold of the source on
newSchemeMutant(self, arr, data) == Scheme(arr, data, self.b0_thr)

\* Scheme(dataBis) of the return statement: a new object on the new array
newScheme(self, arr, data) == Scheme(arr, data, DefaultB0Thr)

\* a conversion in place: the new table is loaded into self, which is returned
to_version_1Mutant(A, O, o) ==
    LET self == O[o]
    IN  IF self.version = 2
        THEN LET made == newScheme(self, self.raw, dataBis(A[self.raw].rows, self.b))
             IN  [arrays |-> [A EXCEPT ![self.raw] = [ndim |-> 2, rows |-> made.rows]],
                  objs |-> [O EXCEPT ![o] = made.self],
                  made |-> <<>>, result |-> o]
        ELSE [arrays |-> A, objs |-> O, made |-> <<>>,
              result |-> IF self.version = 1 THEN o ELSE NoObject]

\* to_version_1 of object o, on the arrays A and objects O: the arrays and
\* objects after the call, the tables handed to the objects it made, and what
\* it returns
to_version_1(A, O, o) ==
    LET self == O[o]
    IN  CASE self.version = 1 ->
               [arrays |-> A, objs |-> O, made |-> <<>>, result |-> o]
          [] self.version = 2 ->
               LET data == dataBis(A[self.raw].rows, self.b)
                   return(made) ==
                       [arrays |-> Append(A, [ndim |-> 2, rows |-> made.rows]),
                        objs |-> Append(O, made.self),
                        made |-> <<data>>,
                        result |-> Len(O) + 1]
               IN  return(newScheme(self, Len(A) + 1, data))
          [] OTHER ->
               [arrays |-> A, objs |-> O, made |-> <<>>, result |-> NoObject]

(***************************************************************************)
(* write_Camino_schemefile                                                 *)
(***************************************************************************)
\* what write_Camino_wf writes for one row: the step count and dt = TE/nb_steps
\* (the rounded samples that follow on the line are not modelled)
write_Camino_wf(nb_steps, TE) == [nb_steps |-> nb_steps, dt |-> Div(TE, Z(nb_steps))]

\* the file after the writes that precede the failing one; failAt = 0: the
\* open fails, 1: the header write fails, i+1: the write of row i fails,
\* NoFailure: nothing fails
NoFailure == MaxRows + 2

WaveformLines(rows, upto) ==
    <<"VERSION: GRADIENT_WAVEFORM ">> \o
    [i \in 1..upto |-> write_Camino_wf(Len(rows[i]) - 4, rows[i][4])]

\* schemefile.close()
close(f) == [f EXCEPT !.handle = "closed"]

\* the state of the file when write_Camino_schemefile ends, and whether it raised
write_Camino_schemefile(self, rows, failAt) ==
    LET N == Len(rows)
        failed == failAt <= N + 1
    IN  CASE self.version = 1 ->
               \* np.savetxt opens, writes and closes the file itself
               [file |-> [handle |-> IF failAt = 0 THEN "none" ELSE "closed",
                          lines |-> IF failAt = 0 THEN <<>>
                                    ELSE <<"VERSION: STEJSKALTANNER">> \o
                                         SubSeq(rows, 1, IF failed THEN failAt - 1 ELSE N)],
                raised |-> IF failed THEN "IOError" ELSE ""]
          [] self.version = 2 ->
               IF failAt = 0
               THEN [file |-> [handle |-> "none", lines |-> <<>>], raised |-> "IOError"]
               ELSE IF failAt = 1
               THEN [file |-> [handle |-> "open", lines |-> <<>>], raised |-> "IOError"]
               ELSE IF failed
               THEN [file |-> [handle |-> "open", lines |-> WaveformLines(rows, failAt - 2)],
                     raised |-> "IOError"]
               ELSE [file |-> close([handle |-> "open", lines |-> WaveformLines(rows, N)]),
                     raised |-> ""]
          [] OTHER ->
               [file |-> [handle |-> "none", lines |-> <<>>], raised |-> ""]

(***************************************************************************)
(* Inputs                                                                  *)
(***************************************************************************)
\* a gradient strength n/d in units of 1/gamma, a waveform sample in units of 1/gamma_wf
GI(n, d) == QE(n, d, <<-1, 0>>)

WI(n) == QE(n, 1, <<0, -1>>)

\* gradient directions: Y > 0, Y < 0, Y = 0 and Y = NaN
DirUp == <<Z(1), Z(2), Z(3)>>

DirDown == <<Z(1), Z(-2), Z(3)>>

DirFlat == <<Z(-1), Z(0), Z(2)>>

DirNaN == <<Z(1), NaN, Z(-3)>>

\* rows of a 4-column table: direction, b
Rows4 ==
    { DirUp \o <<Z(1000)>>, DirDown \o <<Z(1000)>>, DirDown \o <<Z(0)>>,
      DirFlat \o <<Z(1)>>, DirNaN \o <<Z(2000)>>, DirUp \o <<NaN>> }

\* rows of a 7-column table: direction, G, Delta, delta, TE
\* b-values: 39/50, 39/50, 0, 0 (Delta = delta/3), NaN (Inf * 0), 78/25
Rows7 ==
    { DirUp   \o <<GI(600000, 1), Q(1, 40), Q(1, 100), Q(1, 10)>>,
      DirDown \o <<GI(600000, 1), Q(1, 40), Q(1, 100), Q(1, 10)>>,
      DirDown \o <<GI(0, 1), Q(1, 40), Q(1, 100), Q(1, 10)>>,
      DirFlat \o <<GI(600000, 1), Q(1, 300), Q(1, 100), Q(1, 10)>>,
      DirUp   \o <<Inf(1), Q(1, 300), Q(1, 100), Q(1, 10)>>,
      DirNaN  \o <<GI(1200000, 1), Q(1, 40), Q(1, 100), Q(1, 5)>> }

\* rows of an 8-column table: direction, TE, four waveform samples
\* b-values: 100, 100, 1, 0, NaN (Inf * 0), -1
Rows8 ==
    { DirUp   \o <<Z(100), WI(40), WI(0), WI(0), WI(0)>>,
      DirDown \o <<Z(100), WI(40), WI(0), WI(0), WI(0)>>,
      DirDown \o <<Z(100), WI(8), WI(-8), WI(0), WI(0)>>,
      DirFlat \o <<Z(100), WI(0), WI(0), WI(0), WI(0)>>,
      DirUp   \o <<Inf(1), WI(0), WI(0), WI(0), WI(0)>>,
      DirNaN  \o <<Z(-100), WI(8), WI(-8), WI(0), WI(0)>> }

\* the rows a table of M columns is made of
Rows(M) ==
    CASE M = 4 -> Rows4
      [] M = 7 -> Rows7
      [] M = 8 -> Rows8
      [] M = 9 -> { DirDown \o <<Z(125), WI(8), WI(0), WI(0), WI(0), WI(0)>> }
      [] OTHER -> { [c \in 1..M |-> Z(c - 2)] }

ColumnCounts == 3..9

Tables(M) == UNION { [1..n -> Rows(M)] : n \in 1..MaxRows }

\* the 2-D arrays handed to Scheme: sequences of rows
Matrices == UNION { Tables(M) : M \in ColumnCounts }

\* the 1-D arrays handed to Scheme: one sequence of numbers
Vectors == UNION { Rows(M) : M \in ColumnCounts }

Thresholds == { Z(0), Z(1) }

(***************************************************************************)
(* Init and the operations                                                 *)
(***************************************************************************)
Init ==
    /\ arrays = <<>>
    /\ objs = <<>>
    /\ given = <<>>
    /\ file = [handle |-> "none", lines |-> <<>>]
    /\ ret = [op |-> "start", self |-> NoObject, result |-> NoObject, raised |-> ""]

\* Scheme(data, b0_thr) with an array: a 1-D array is viewed as one row, the
\* format is chosen, and load_from_table fills the object
Construct(data, b0_thr) ==
    /\ LET rows == IF data.ndim = 1 THEN expand_dims(data) ELSE data.cells
           failure == IF version(Len(rows[1])) = -1
                      THEN ERROR("Unrecognized scheme format")
                      ELSE [aborts |-> FALSE, message |-> ""]
       IN  IF failure.aborts
           THEN /\ arrays' = Append(arrays, [ndim |-> data.ndim, rows |-> rows])
                /\ UNCHANGED <<objs, given>>
                /\ ret' = [op |-> "Scheme", self |-> NoObject, result |-> NoObject,
                           raised |-> failure.message]
           ELSE \E made \in {Scheme(Len(arrays) + 1, rows, b0_thr)} :
                    /\ arrays' = Append(arrays, [ndim |-> data.ndim, rows |-> made.rows])
                    /\ objs' = Append(objs, made.self)
                    /\ given' = Append(given, rows)
                    /\ ret' = [op |-> "Scheme", self |-> NoObject,
                               result |-> Len(objs) + 1, raised |-> ""]
    /\ UNCHANGED file

\* objs[o].to_version_1()
ToVersion1(o) ==
    /\ ret.op # "write_Camino_schemefile"
    /\ objs[o].version = 2 => Len(objs) < MaxObjs
    /\ \E after \in {to_version_1(arrays, objs, o)} :
           /\ arrays' = after.arrays
           /\ objs' = after.objs
           /\ given' = given \o after.made
           /\ ret' = [op |-> "to_version_1", self |-> o, result |-> after.result,
                      raised |-> ""]
    /\ UNCHANGED file

\* objs[o].write_Camino_schemefile(path), the write numbered failAt failing;
\* a run ends with its write (no operation reads the file)
WriteCaminoSchemefile(o, failAt) ==
    /\ ret.op # "write_Camino_schemefile"
    /\ failAt <= Len(rawRows(objs[o])) + 1 \/ failAt = NoFailure
    /\ \E after \in {write_Camino_schemefile(objs[o], rawRows(objs[o]), failAt)} :
           /\ file' = after.file
           /\ ret' = [op |-> "write_Camino_schemefile", self |-> o,
                      result |-> NoObject, raised |-> after.raised]
    /\ UNCHANGED <<arrays, objs, given>>

\* a run starts with the construction of one scheme from the caller's table
NewScheme ==
    /\ ret.op = "start"
    /\ \/ \E cells \in Matrices, b0_thr \in Thresholds :
              Construct([ndim |-> 2, cells |-> cells], b0_thr)
       \/ \E cells \in Vectors, b0_thr \in Thresholds :
              Construct([ndim |-> 1, cells |-> cells], b0_thr)

Next ==
    \/ NewScheme
    \/ \E o \in DOMAIN objs : ToVersion1(o)
    \/ \E o \in DOMAIN objs, failAt \in (0..(MaxRows + 1)) \cup {NoFailure} :
          WriteCaminoSchemefile(o, failAt)

Spec == Init /\ [][Next]_vars

(***************************************************************************)
(* Properties                                                              *)
(***************************************************************************)
\* the number of rows of the table of a scheme
NRows(self) == Len(rawRows(self))

\* the last call was to_version_1 on a waveform scheme, and returned an object
Converted ==
    /\ ret.op = "to_version_1"
    /\ objs[ret.self].version = 2
    /\ ret.result # NoObject

\* C1: after load_from_table, the baseline indices b0_idx and the weighted
\* indices dwi_idx of every scheme are disjoint, together they are all the row
\* indices of the table, and nS = b0_count + dwi_count is the number of rows.
C1_Partition ==
    \A o \in DOMAIN objs :
        LET self == objs[o]
        IN  /\ Range(self.b0_idx) \cap Range(self.dwi_idx) = {}
            /\ Range(self.b0_idx) \cup Range(self.dwi_idx) = 1..NRows(self)
            /\ nS(self) = NRows(self)

\* the row indices held by the shells of a scheme
ShellRows(self) == UNION { Range(self.shells[k].idx) : k \in DOMAIN self.shells }

\* C2: after load_from_table, every weighted row index is in the idx list of
\* exactly one shell, no baseline row index is in any shell, and the shells'
\* idx lists together are exactly dwi_idx.
C2_ShellsCoverWeighted ==
    \A o \in DOMAIN objs :
        LET self == objs[o]
        IN  /\ \A i \in Range(self.dwi_idx) :
                  Cardinality({k \in DOMAIN self.shells : i \in Range(self.shells[k].idx)}) = 1
            /\ \A i \in Range(self.b0_idx) : i \notin ShellRows(self)
            /\ ShellRows(self) = Range(self.dwi_idx)

\* the descriptor columns a shell was made from, read back from its fields
ShellDescriptor(self, sh) ==
    CASE self.version = 0 -> <<sh.b>>
      [] self.version = 1 -> <<sh.G, sh.Delta, sh.delta, sh.TE>>
      [] self.version = 2 -> <<sh.TE>> \o sh.wf

\* the row indices of the table whose descriptor columns equal those of a shell
MatchingRows(self, sh) ==
    {r \in 1..NRows(self) :
        RowEq(Cols(rawRows(self)[r], 4, Len(rawRows(self)[r])), ShellDescriptor(self, sh))}

Min(S) == CHOOSE x \in S : \A y \in S : x <= y

\* C3: the shells are in first-occurrence order: of two shells, the one that
\* comes first in the list has the smaller first row with its descriptor,
\* whatever the values of the descriptors.  (A descriptor holding a NaN
\* equals no row, so such a shell has no first row and is left out.)
C3_FirstOccurrenceOrder ==
    \A o \in DOMAIN objs :
        LET self == objs[o]
        IN  \A p, q \in DOMAIN self.shells :
                ( /\ p < q
                  /\ MatchingRows(self, self.shells[p]) # {}
                  /\ MatchingRows(self, self.shells[q]) # {} )
                => Min(MatchingRows(self, self.shells[p]))
                     < Min(MatchingRows(self, self.shells[q]))

\* a scheme with two shells, the first of them with the larger b-value
C3_Witness ==
    \E o \in DOMAIN objs :
        /\ Len(objs[o].shells) = 2
        /\ Lt(objs[o].shells[2].b, objs[o].shells[1].b)
        /\ objs[o].shells[1].idx = <<1>>
        /\ objs[o].shells[2].idx = <<2>>

\* the last call was Scheme(data, b0_thr); data is the first array
Constructed == ret.op = "Scheme"

\* the column count M of the table handed to the constructor
GivenColumns == Len(arrays[1].rows[1])

\* C4: the constructor chooses the format from the column count M alone:
\* M = 4 gives version 0, M = 7 version 1, M > 7 version 2, a 1-D input of
\* length M is one row, and for every other M the construction fails with the
\* 'Unrecognized scheme format' error and no Scheme object is made.
C4_FormatFromColumns ==
    Constructed =>
        IF GivenColumns = 4 \/ GivenColumns >= 7
        THEN /\ ret.raised = ""
             /\ ret.result = 1 /\ Len(objs) = 1
             /\ GivenColumns = 4 => objs[1].version = 0
             /\ GivenColumns = 7 => objs[1].version = 1
             /\ GivenColumns > 7 => objs[1].version = 2
             /\ arrays[1].ndim = 1 => NRows(objs[1]) = 1 /\ Len(objs[1].b) = 1
        ELSE /\ ret.raised = "Unrecognized scheme format"
             /\ ret.result = NoObject
             /\ objs = <<>>

\* a construction from a table of 5 columns has failed
C4_Witness ==
    /\ Constructed
    /\ GivenColumns = 5
    /\ ret.raised = "Unrecognized scheme format"

\* the direction columns of a row
Direction(row) == Cols(row, 1, 3)

\* the columns after the direction
Descriptor(row) == Cols(row, 4, Len(row))

\* the row-wise part of C5 for scheme o: a row given with Y < 0 has its three
\* direction columns negated, any other row keeps them, the other columns are
\* unchanged, and normalizing the stored row again changes nothing
C5_Rows(o) ==
    LET stored == rawRows(objs[o])
        input  == given[o]
    IN  /\ Len(stored) = Len(input)
        /\ \A i \in DOMAIN input :
              /\ Lt(input[i][2], Z(0)) =>
                    Direction(stored[i]) =
                        <<Neg(input[i][1]), Neg(input[i][2]), Neg(input[i][3])>>
              /\ ~Lt(input[i][2], Z(0)) => Direction(stored[i]) = Direction(input[i])
              /\ Descriptor(stored[i]) = Descriptor(input[i])
              /\ normalizeRow(stored[i]) = stored[i]

C6_RoundTrip ==
    Converted =>
        \A i \in DOMAIN objs[ret.self].b :
            Le(Z(0), objs[ret.self].b[i]) =>
                objs[ret.result].b[i] = objs[ret.self].b[i]

\* C7: to_version_1 of a 4-column (b-value) scheme fails with
\* UnsupportedConversion; it never returns normally.
C7_BvalueConversionFails ==
    (ret.op = "to_version_1" /\ objs[ret.self].version = 0) =>
        ret.raised = "UnsupportedConversion"

\* C8: to_version_1 never changes the scheme it is called on (its fields, the
\* rows of its table): on a version-1 scheme it returns that same object and
\* allocates nothing; on a waveform scheme it returns a new object of version
\* 1 on a new array with the same number of rows, the direction columns of
\* the source and the source's TE in the last column.
C8_SourceUntouched ==
    [][ ret'.op = "to_version_1" =>
          LET o   == ret'.self
              src == objs[o]
              res == ret'.result
          IN  /\ \A x \in DOMAIN objs : objs'[x] = objs[x]
              /\ \A a \in DOMAIN arrays : arrays'[a] = arrays[a]
              /\ src.version = 1 =>
                    res = o /\ objs' = objs /\ arrays' = arrays
              /\ src.version = 2 =>
                    /\ res \notin DOMAIN objs
                    /\ res \in DOMAIN objs'
                    /\ objs'[res].version = 1
                    /\ objs'[res].raw \notin DOMAIN arrays
                    /\ Len(arrays'[objs'[res].raw].rows) = NRows(src)
                    /\ \A i \in 1..NRows(src) :
                          /\ Direction(arrays'[objs'[res].raw].rows[i])
                                = Direction(rawRows(src)[i])
                          /\ arrays'[objs'[res].raw].rows[i][7] = rawRows(src)[i][4]
      ]_vars

\* to_version_1 of a waveform scheme has returned a second object
C8_Witness ==
    /\ Converted
    /\ ret.result # ret.self
    /\ objs[ret.result].version = 1
    /\ NRows(objs[ret.self]) = 2

\* C9: when write_Camino_schemefile of a waveform scheme has ended, by
\* returning or by a failed write, the file it opened is not left open.
C9_HandleClosed ==
    (ret.op = "write_Camino_schemefile" /\ objs[ret.self].version = 2) =>
        file.handle # "open"

\* C10: the scheme to_version_1 returns for a waveform scheme is built with
\* the default threshold 0, whatever the threshold of the source: its index
\* sets are those of its b-values against 0, and a source row with
\* 0 < b <= b0_thr (baseline in the source) is weighted in the result.
C10_DefaultThreshold ==
    Converted =>
        LET src == objs[ret.self]
            new == objs[ret.result]
        IN  /\ new.b0_thr = Z(0)
            /\ new.b0_idx = Where(Len(new.b), {i \in DOMAIN new.b : Le(new.b[i], Z(0))})
            /\ new.dwi_idx = Where(Len(new.b), {i \in DOMAIN new.b : Gt(new.b[i], Z(0))})
            /\ \A i \in DOMAIN src.b :
                  (Lt(Z(0), src.b[i]) /\ Le(src.b[i], src.b0_thr)) =>
                      /\ i \in Range(src.b0_idx)
                      /\ i \in Range(new.dwi_idx)

\* a waveform scheme built with threshold 1 and a row of b-value 1 was converted
C10_Witness ==
    /\ Converted
    /\ objs[ret.self].b0_thr = Z(1)
    /\ \E i \in DOMAIN objs[ret.self].b :
          /\ objs[ret.self].b[i] = Z(1)
          /\ i \in Range(objs[ret.self].b0_idx)
          /\ i \in Range(objs[ret.result].dwi_idx)

====
